---- MODULE Spec2Model ----
(***************************************************************************)
(* Model of hddl (src/hddl.cpp): the line-tracking JSON parser json::Parse, *)
(* the collector HOMEd::CollectContent / HOMEd::CollectDir, the renderer    *)
(* HOMEd::Populate and the part of CONSOLE_APP_MAIN that drives them in     *)
(* directory mode (-d).                                                     *)
(*                                                                          *)
(* A String that is compared or cut (file names, paths, display names) is   *)
(* a sequence of one-character strings.  The text of a JSON file is a       *)
(* sequence of lexical units: punctuation and white-space characters,       *)
(* string literals, number literals and identifiers.                        *)
(***************************************************************************)
EXTENDS Integers, Sequences, FiniteSets, TLC

(***************************************************************************)
(* Bounds                                                                   *)
(***************************************************************************)
MaxFiles == 2
MaxNL == 1

(***************************************************************************)
(* Strings                                                                  *)
(***************************************************************************)
\* The characters used by the model, in ascending byte order.
Alphabet ==
    << " ", ".", "/",
       "A", "B", "C", "D", "E", "F", "G", "H", "I", "J", "K", "L", "M", "N",
       "O", "P", "Q", "R", "S", "T", "U", "V", "W", "X", "Y", "Z",
       "a", "b", "c", "d", "e", "f", "g", "h", "i", "j", "k", "l", "m", "n",
       "o", "p", "q", "r", "s", "t", "u", "v", "w", "x", "y", "z" >>

CodeTable ==
    [c \in {Alphabet[i] : i \in 1..Len(Alphabet)} |->
        CHOOSE i \in 1..Len(Alphabet) : Alphabet[i] = c]

\* The byte value of a character, up to an order-preserving renumbering.
Code(c) == CodeTable[c]

RECURSIVE CompareFrom(_, _, _)
CompareFrom(a, b, i) ==
    IF i > Len(a) THEN (IF i > Len(b) THEN 0 ELSE -1)
    ELSE IF i > Len(b) THEN 1
    ELSE IF a[i] = b[i] THEN CompareFrom(a, b, i + 1)
    ELSE IF Code(a[i]) < Code(b[i]) THEN -1 ELSE 1

\* String::Compare: lexicographic on bytes, a proper prefix first; <0, 0, >0.
StringCompare(a, b) == CompareFrom(a, b, 1)

\* Position (1-based) of the last occurrence of c in s, 0 when absent.
LastPos(s, c) ==
    IF \E i \in 1..Len(s) : s[i] = c
    THEN CHOOSE i \in 1..Len(s) : s[i] = c /\ \A j \in (i+1)..Len(s) : s[j] # c
    ELSE 0

\* GetFileName: the part of the path after the last directory separator.
GetFileName(path) == SubSeq(path, LastPos(path, "/") + 1, Len(path))

GetFileTitleWithExt(path) == GetFileName(path)

\* GetFileTitle: the file name without its extension (from the last '.').
GetFileTitle(path) ==
    LET n == GetFileName(path)
        e == LastPos(n, ".")
    IN  IF e = 0 THEN n ELSE SubSeq(n, 1, e - 1)

(***************************************************************************)
(* Lexical units and CParser                                                *)
(***************************************************************************)
Ch(c)  == [t |-> "ch",  v |-> c]
Str(s) == [t |-> "str", v |-> s]
Num(s) == [t |-> "num", v |-> s]
Id(s)  == [t |-> "id",  v |-> s]
NL == Ch("\n")
SP == Ch(" ")

RECURSIVE Spaces(_, _)
\* CParser::Spaces: skips white space, counting the line feeds passed.
Spaces(text, st) ==
    IF st.pos <= Len(text) /\ (text[st.pos] = NL \/ text[st.pos] = SP)
    THEN Spaces(text, [pos  |-> st.pos + 1,
                       line |-> IF text[st.pos] = NL THEN st.line + 1 ELSE st.line])
    ELSE st

\* CParser::CParser(const char *): line 1, leading white space skipped.
CParser(text) == Spaces(text, [pos |-> 1, line |-> 1])

\* CParser::GetLine
GetLine(st) == st.line

\* A token has been consumed: step over it and the white space after it.
Advance(text, st) == Spaces(text, [st EXCEPT !.pos = @ + 1])

IsChar(text, st, c) == st.pos <= Len(text) /\ text[st.pos] = Ch(c)
IsString(text, st)  == st.pos <= Len(text) /\ text[st.pos].t = "str"
IsDouble(text, st)  == st.pos <= Len(text) /\ text[st.pos].t = "num"
IsId(text, st, s)   == st.pos <= Len(text) /\ text[st.pos] = Id(s)

(***************************************************************************)
(* json::Key and Value                                                      *)
(***************************************************************************)
Key(key, line) == [key |-> key, line |-> line]

\* Key::operator== compares the text only.
KeyEq(a, b) == a.key = b.key

MkValue(type, s, keys, vals) == [type |-> type, s |-> s, keys |-> keys, vals |-> vals]
ErrorValue  == MkValue("error", "", <<>>, <<>>)
NullValue   == MkValue("null", "", <<>>, <<>>)
BoolValue(s) == MkValue("bool", s, <<>>, <<>>)
NumValue(s) == MkValue("num", s, <<>>, <<>>)
StrValue(s) == MkValue("str", s, <<>>, <<>>)
EmptyMap    == MkValue("map", "", <<>>, <<>>)
EmptyArray  == MkValue("array", "", <<>>, <<>>)

IsError(v)    == v.type = "error"
IsValueMap(v) == v.type = "map"

\* Value::GetCount: the number of elements of an array or map, 0 otherwise.
GetCount(v) == IF v.type \in {"map", "array"} THEN Len(v.vals) ELSE 0

ValueMapSet(m, k, v) ==
    IF \E i \in 1..Len(m.keys) : KeyEq(m.keys[i], k)
    THEN LET i == CHOOSE i \in 1..Len(m.keys) :
                    KeyEq(m.keys[i], k) /\ \A j \in 1..(i-1) : ~KeyEq(m.keys[j], k)
         IN  [m EXCEPT !.vals[i] = v]
    ELSE [m EXCEPT !.keys = Append(@, k), !.vals = Append(@, v)]

\* ValueMap::Add: appends the pair; an equal key already present is kept.
ValueMapAdd(m, k, v) == [m EXCEPT !.keys = Append(@, k), !.vals = Append(@, v)]

\* ValueArray::Add
ValueArrayAdd(va, v) == [va EXCEPT !.vals = Append(@, v)]

\* ValueMap::Find: 0-based index of the first equal key, -1 when absent.
ValueMapFind(m, k) ==
    IF \E i \in 1..Len(m.keys) : KeyEq(m.keys[i], k)
    THEN (CHOOSE i \in 1..Len(m.keys) :
              KeyEq(m.keys[i], k) /\ \A j \in 1..(i-1) : ~KeyEq(m.keys[j], k)) - 1
    ELSE -1

ValueMapGetKey(m, i)   == m.keys[i + 1]
ValueMapGetValue(m, i) == m.vals[i + 1]

(***************************************************************************)
(* json::Parse                                                              *)
(***************************************************************************)
Ret(v, st) == [err |-> FALSE, val |-> v, st |-> st]
Throw(st)  == [err |-> TRUE, val |-> ErrorValue, st |-> st]

KeyLineAfterRead(st, s1) == GetLine(s1)

\* Lines 61-62: the line is taken with the parser at st, in front of the key;
\* ReadString then moves it to s1, behind the key and the white space after it.
KeyLine(st, s1) == GetLine(st)

RECURSIVE Parse(_, _)
RECURSIVE ParseObject(_, _, _)
RECURSIVE ParseArray(_, _, _)

\* The while loop of the '{' branch; m is the ValueMap built so far.
ParseObject(text, st, m) ==
    IF IsChar(text, st, "}") THEN Ret(m, Advance(text, st))
    ELSE
      IF ~IsString(text, st) THEN Throw(st)
      ELSE
        LET key  == text[st.pos].v
            s1   == Advance(text, st)
            line == KeyLine(st, s1)
        IN
        IF ~IsChar(text, s1, ":") THEN Throw(s1)
        ELSE
          LET r == Parse(text, Advance(text, s1)) IN
          IF r.err THEN r
          ELSE
            LET m2 == ValueMapAdd(m, Key(key, line), r.val) IN
            IF IsChar(text, r.st, "}") THEN Ret(m2, Advance(text, r.st))
            ELSE IF ~IsChar(text, r.st, ",") THEN Throw(r.st)
            ELSE ParseObject(text, Advance(text, r.st), m2)

\* The while loop of the '[' branch.
ParseArray(text, st, va) ==
    IF IsChar(text, st, "]") THEN Ret(va, Advance(text, st))
    ELSE
      LET r == Parse(text, st) IN
      IF r.err THEN r
      ELSE
        LET va2 == ValueArrayAdd(va, r.val) IN
        IF IsChar(text, r.st, "]") THEN Ret(va2, Advance(text, r.st))
        ELSE IF ~IsChar(text, r.st, ",") THEN Throw(r.st)
        ELSE ParseArray(text, Advance(text, r.st), va2)

\* json::Parse(CParser&)
Parse(text, st) ==
    IF IsDouble(text, st) THEN Ret(NumValue(text[st.pos].v), Advance(text, st))
    ELSE IF IsString(text, st) THEN Ret(StrValue(text[st.pos].v), Advance(text, st))
    ELSE IF IsId(text, st, "null") THEN Ret(NullValue, Advance(text, st))
    ELSE IF IsId(text, st, "true") THEN Ret(BoolValue("true"), Advance(text, st))
    ELSE IF IsId(text, st, "false") THEN Ret(BoolValue("false"), Advance(text, st))
    ELSE IF IsChar(text, st, "{") THEN ParseObject(text, Advance(text, st), EmptyMap)
    ELSE IF IsChar(text, st, "[") THEN ParseArray(text, Advance(text, st), EmptyArray)
    ELSE Throw(st)

\* json::Parse(const char *): a CParser::Error becomes an error value.
ParseText(text) == Parse(text, CParser(text)).val

(***************************************************************************)
(* State                                                                    *)
(***************************************************************************)
VARIABLES
    fnMap,    \* HOMEd::fnMap: file name -> display name, in container order
    bMap,     \* HOMEd::bMap: file name -> Vector<json::Key>, in container order
    fv,       \* CollectDir: the paths FindAllPaths returned
    fi,       \* CollectDir: position in fv of the next path
    seen,     \* the paths CollectDir has tried to open so far
    content,  \* CollectContent: the text last loaded
    js,       \* CollectContent: the value last parsed
    ret,      \* how the last CollectContent ended: "none", "true", "false", "throw"
    cerr,     \* what was written to Cerr()
    os,       \* what was written to the output stream
    oob,      \* the file names for which Populate read bMap[-1]
    pc        \* position in CONSOLE_APP_MAIN

vars == <<fnMap, bMap, fv, fi, seen, content, js, ret, cerr, os, oob, pc>>

DotJson == <<".", "j", "s", "o", "n">>
OtherJson == <<"o", "t", "h", "e", "r">> \o DotJson
OtherAlias == <<".", ".", ".">>

Pair(k, v) == [key |-> k, value |-> v]

\* HOMEd::HOMEd: the seeded aliases, in insertion order.
SeedAliases ==
    << Pair(<<"l","u","m","i">> \o DotJson, <<"A","q","a","r","a","/","X","i","a","o","m","i">>),
       Pair(<<"h","u","e">> \o DotJson, <<"P","h","i","l","i","p","s">>),
       Pair(<<"g","l","e","d","o","p","t","o">> \o DotJson, <<"G","L","E","D","O","P","T","O">>),
       Pair(<<"g","s">> \o DotJson, <<"G","S">>),
       Pair(<<"k","o","n","k","e">> \o DotJson, <<"K","o","n","k","e">>),
       Pair(<<"l","i","f","e","c","o","n","t","r","o","l">> \o DotJson,
            <<"L","i","f","e"," ","C","o","n","t","r","o","l">>),
       Pair(<<"o","r","v","i","b","o">> \o DotJson, <<"O","R","V","I","B","O">>),
       Pair(<<"p","e","r","e","n","i","o">> \o DotJson, <<"P","e","r","e","n","i","o">>),
       Pair(<<"y","a","n","d","e","x">> \o DotJson, <<"Y","a","n","d","e","x">>),
       Pair(<<"s","o","n","o","f","f">> \o DotJson, <<"S","o","n","o","f","f">>),
       Pair(<<"i","k","e","a">> \o DotJson, <<"I","K","E","A">>),
       Pair(<<"t","u","y","a">> \o DotJson, <<"T","U","Y","A">>),
       Pair(<<"e","f","e","k","t","a">> \o DotJson, <<"E","f","e","k","t","a">>),
       Pair(<<"m","o","d","k","a","m">> \o DotJson, <<"M","o","d","k","a","m">>),
       Pair(<<"p","u","s","h","o","k">> \o DotJson, <<"P","u","s","h","O","k">>),
       Pair(<<"b","a","c","c","h","u","s">> \o DotJson, <<"B","a","c","c","h","u","s">>),
       Pair(<<"h","o","m","e","d">> \o DotJson, <<"H","O","M","E","d">>),
       Pair(<<"s","l","a","c","k","y">> \o DotJson, <<"S","l","a","c","k","y">>),
       Pair(OtherJson, OtherAlias) >>

(***************************************************************************)
(* VectorMap                                                                *)
(***************************************************************************)
\* VectorMap::Find: 0-based index of the first pair with the key, -1 when absent.
Find(m, k) ==
    IF \E i \in 1..Len(m) : m[i].key = k
    THEN (CHOOSE i \in 1..Len(m) : m[i].key = k /\ \A j \in 1..(i-1) : m[j].key # k) - 1
    ELSE -1

\* VectorMap::Add
Add(m, k, v) == Append(m, Pair(k, v))

\* VectorMap::GetAdd: the map with a default value for k added when k is absent.
GetAdd(m, k) == IF Find(m, k) >= 0 THEN m ELSE Add(m, k, <<>>)

(***************************************************************************)
(* Value conversions used by CollectContent                                 *)
(***************************************************************************)
\* IsNull(const Value&): null, and also an empty string, array or map.
IsNullValue(v) ==
    \/ v.type = "null"
    \/ v.type = "str" /\ v.s = ""
    \/ v.type \in {"array", "map"} /\ Len(v.vals) = 0

\* ValueArray(const Value&): an array as it is, the values of a map, nothing
\* for a null value; any other value raises ValueTypeError.
IsValueArrayConvertible(v) == v.type \in {"array", "map"} \/ IsNullValue(v)
ToValueArray(v) == IF v.type \in {"array", "map"} THEN v.vals ELSE <<>>

\* Value::operator String: a string as it is, the empty string for a null
\* value; any other value raises ValueTypeError.
IsStringConvertible(v) == v.type = "str" \/ IsNullValue(v)
ValueToString(v) == v.s

(***************************************************************************)
(* HOMEd::CollectContent                                                    *)
(***************************************************************************)
Msg(m, a) == [msg |-> m, arg |-> a]

Thrown(vd) == [thrown |-> TRUE,  vd |-> vd]
Done(vd)   == [thrown |-> FALSE, vd |-> vd]

\* Line 186: the index of the "description" key of a device object.
DescriptionIndex(obj) == ValueMapFind(obj, Key("description", -1))

CollectElementProbeLine(v, vd) ==
    IF IsValueMap(v)
    THEN LET ind == DescriptionIndex(v) IN
         IF ind >= 0
         THEN LET k    == Key("description", -1)
                  line == k.line
                  name == ValueMapGetValue(v, ind)
              IN  IF IsStringConvertible(name)
                  THEN Done(Append(vd, Key(ValueToString(name), line)))
                  ELSE Thrown(vd)
         ELSE Done(vd)
    ELSE Done(vd)

\* Lines 184-193: one element v of the array, vd the entry list of the file.
CollectElement(v, vd) ==
    IF IsValueMap(v)
    THEN LET ind == DescriptionIndex(v) IN
         IF ind >= 0
         THEN LET k    == ValueMapGetKey(v, ind)
                  line == k.line
                  name == ValueMapGetValue(v, ind)
              IN  IF IsStringConvertible(name)
                  THEN Done(Append(vd, Key(ValueToString(name), line)))
                  ELSE Thrown(vd)
         ELSE Done(vd)
    ELSE Done(vd)

RECURSIVE CollectArray(_, _, _)
\* Line 183: the loop over the elements of va, from element j (1-based).
CollectArray(va, j, vd) ==
    IF j > Len(va) THEN Done(vd)
    ELSE LET r == CollectElement(va[j], vd) IN
         IF r.thrown THEN r ELSE CollectArray(va, j + 1, r.vd)

RECURSIVE CollectValues(_, _, _)
\* Lines 180-195: the loop over the values of the top-level object, from i.
CollectValues(vm, i, vd) ==
    IF i >= GetCount(vm) THEN Done(vd)
    ELSE LET x == ValueMapGetValue(vm, i) IN
         IF ~IsValueArrayConvertible(x) THEN Thrown(vd)
         ELSE LET r == CollectArray(ToValueArray(x), 1, vd) IN
              IF r.thrown THEN r ELSE CollectValues(vm, i + 1, r.vd)

Outcome(r, f, b, e, v) == [ret |-> r, fnMap |-> f, bMap |-> b, cerr |-> e, js |-> v]

\* Lines 176-196: the part of CollectContent after the checks of the value.
CollectEntries(fn, vm, f, b, e) ==
    LET b1 == GetAdd(b, fn)
        vi == Find(b1, fn) + 1
        f1 == IF Find(f, fn) < 0 THEN Add(f, fn, GetFileTitle(fn)) ELSE f
        r  == CollectValues(vm, 0, b1[vi].value)
        b2 == [b1 EXCEPT ![vi].value = r.vd]
    IN  Outcome(IF r.thrown THEN "throw" ELSE "true", f1, b2, e, vm)

CollectContentNoEmptyCheck(fn, fin, text, f, b, e) ==
    LET v == ParseText(text) IN
    IF IsError(v)
    THEN Outcome("false", f, b, Append(e, Msg("Failed to parse JSON file ", fin)), v)
    ELSE IF ~IsValueMap(v)
    THEN Outcome("false", f, b, e, v)
    ELSE CollectEntries(fn, v, f, b, e)

CollectContentGetAddFirst(fn, fin, text, f, b, e) ==
    LET v  == ParseText(text)
        b1 == GetAdd(b, fn)
    IN
    IF IsError(v)
    THEN Outcome("false", f, b1, Append(e, Msg("Failed to parse JSON file ", fin)), v)
    ELSE IF GetCount(v) = 0
    THEN Outcome("false", f, b1, Append(e, Msg("The JSON is empty. ", fin)), v)
    ELSE IF ~IsValueMap(v)
    THEN Outcome("false", f, b1, e, v)
    ELSE CollectEntries(fn, v, f, b1, e)

\* HOMEd::CollectContent, on the maps f (fnMap), b (bMap) and the log e.
CollectContent(fn, fin, text, f, b, e) ==
    LET v == ParseText(text) IN
    IF IsError(v)
    THEN Outcome("false", f, b, Append(e, Msg("Failed to parse JSON file ", fin)), v)
    ELSE IF GetCount(v) = 0
    THEN Outcome("false", f, b, Append(e, Msg("The JSON is empty. ", fin)), v)
    ELSE IF ~IsValueMap(v)
    THEN Outcome("false", f, b, e, v)
    ELSE CollectEntries(fn, v, f, b, e)

(***************************************************************************)
(* HOMEd::Populate                                                          *)
(***************************************************************************)
Header        == [kind |-> "header",  fn |-> <<>>, alias |-> <<>>,  name |-> "", line |-> 0]
Heading(fn, a) == [kind |-> "heading", fn |-> fn,   alias |-> a,     name |-> "", line |-> 0]
Item(fn, n, l) == [kind |-> "item",    fn |-> fn,   alias |-> <<>>,  name |-> n,  line |-> l]

\* bMap[-1] is a read outside the Vector.  What it does is not defined: the
\* process dies there (the bounds assertion of a debug build, or a fault), or
\* it goes on with whatever the memory before the Vector holds.  The address
\* is the same for every such read of one run, so is the outcome.
UBOutcomes ==
    { [crash |-> TRUE,  kv |-> <<>>],
      [crash |-> FALSE, kv |-> <<>>],
      [crash |-> FALSE, kv |-> <<Key("?", 0)>>] }

Stream(o, r, c) == [os |-> o, oob |-> r, crashed |-> c]

\* HOMEd::Populate(Stream&, const String&, const String&) on the Catalog b.
PopulateSection(o, fn, alias, b, ub) ==
    LET bi  == Find(b, fn)
        os1 == Append(o.os, Heading(fn, alias))
        kv  == IF bi < 0 THEN ub.kv ELSE b[bi + 1].value
        rd  == IF bi < 0 THEN Append(o.oob, fn) ELSE o.oob
    IN  IF bi < 0 /\ ub.crash
        THEN Stream(os1, rd, TRUE)
        ELSE Stream(os1 \o [i \in 1..Len(kv) |-> Item(fn, kv[i].key, kv[i].line)], rd, FALSE)

\* The place of x in the sorted sequence: after the pairs whose value is
\* less than the value of x.  SortByValue is not a stable sort: where pairs of
\* equal value end up is up to the algorithm, so x goes after them or before.
RECURSIVE InsertPos(_, _, _, _)
InsertPos(sorted, x, after, n) ==
    IF n = 0 THEN 0
    ELSE LET c == StringCompare(sorted[n].value, x.value) IN
         IF c < 0 \/ (after /\ c = 0) THEN n ELSE InsertPos(sorted, x, after, n - 1)

InsertByValue(sorted, x, after) ==
    LET n == InsertPos(sorted, x, after, Len(sorted))
    IN  SubSeq(sorted, 1, n) \o <<x>> \o SubSeq(sorted, n + 1, Len(sorted))

RECURSIVE SortFrom(_, _, _, _)
SortFrom(m, i, sorted, after) ==
    IF i > Len(m) THEN sorted
    ELSE SortFrom(m, i + 1, InsertByValue(sorted, m[i], after), after)

\* SortByValue(fnMap): ascending by display name.
SortByValue(m, after) == SortFrom(m, 1, <<>>, after)

NeverFallback(fn) == FALSE

\* Line 288: the file whose section is rendered last.
IsFallback(fn) == fn = OtherJson

RECURSIVE PopulateLoop(_, _, _, _, _)
\* Lines 286-291: the loop over the sorted fnMap f, from index i (0-based).
PopulateLoop(o, f, i, b, ub) ==
    IF i >= Len(f) \/ o.crashed THEN o
    ELSE IF IsFallback(f[i + 1].key)
    THEN PopulateLoop(o, f, i + 1, b, ub)
    ELSE PopulateLoop(PopulateSection(o, f[i + 1].key, f[i + 1].value, b, ub), f, i + 1, b, ub)

\* HOMEd::Populate(Stream&) after the sort: header, sections, fallback section.
Populate(f, b, ub) ==
    LET o == PopulateLoop(Stream(<<Header>>, <<>>, FALSE), f, 0, b, ub)
    IN  IF o.crashed THEN o ELSE PopulateSection(o, OtherJson, OtherAlias, b, ub)

(***************************************************************************)
(* Inputs                                                                   *)
(***************************************************************************)
LB == Ch("{")
RB == Ch("}")
LS == Ch("[")
RS == Ch("]")
CO == Ch(":")
CM == Ch(",")

Desc(n) == <<LB, Str("description"), CO, Str(n), RB>>

\* {"x":[{"description":"D1"}]}
DocOne == <<LB, Str("x"), CO, LS>> \o Desc("D1") \o <<RS, RB>>
\* Two top-level keys over seven lines; the second description has its key,
\* its ':' and its value on three different lines.
DocLines ==
    <<LB, NL, SP, Str("x"), CO, LS>> \o Desc("D1")
    \o <<CM, LB, Str("name"), CO, Str("n"), RB, RS, CM, NL, SP, Str("y"), CO, NL, LS>>
    \o <<LB, NL, Str("description"), NL, CO, NL, Str("D2"), RB>> \o <<RS, NL, RB>>
DocEmptyObject == <<LB, RB>>
DocEmptyArray  == <<LS, RS>>
DocUnterminated == <<LB>>
DocArray  == <<LS, Num("1"), RS>>
DocNumber == <<Num("1")>>
\* {"x":[{"description":"D1",\n"description":"D2"}]}
DocDuplicate ==
    <<LB, Str("x"), CO, LS, LB, Str("description"), CO, Str("D1"), CM, NL,
      Str("description"), CO, Str("D2"), RB, RS, RB>>
\* {"x":{"k":{"description":"D3"}}}
DocNested == <<LB, Str("x"), CO, LB, Str("k"), CO>> \o Desc("D3") \o <<RB, RB>>
\* {"x":1}
DocNumberValue == <<LB, Str("x"), CO, Num("1"), RB>>
\* {"x":[{"name":"n"},1,]}
DocNoDescription == <<LB, Str("x"), CO, LS, LB, Str("name"), CO, Str("n"), RB, CM, Num("1"), CM, RS, RB>>

Contents ==
    { DocOne, DocLines, DocEmptyObject, DocEmptyArray, DocUnterminated, DocArray,
      DocNumber, DocDuplicate, DocNested, DocNumberValue, DocNoDescription }

AJson == <<"a">> \o DotJson
Paths ==
    { AJson,
      <<"s", "/">> \o AJson,
      OtherJson,
      <<"g", "s">> \o DotJson,
      <<"G", "S">> \o DotJson }

\* What FindAllPaths can return: distinct paths, at most MaxFiles of them.
PathSeqs ==
    UNION { { q \in [1..n -> Paths] : \A i, j \in 1..n : i # j => q[i] # q[j] } : n \in 0..MaxFiles }

(***************************************************************************)
(* CONSOLE_APP_MAIN with -d: HOMEd hd; hd.CollectDir(dn); hd.Populate(...)  *)
(***************************************************************************)
Init ==
    /\ fnMap = SeedAliases
    /\ bMap = <<>>
    /\ fv \in PathSeqs
    /\ fi = 1
    /\ seen = <<>>
    /\ content = <<>>
    /\ js = NullValue
    /\ ret = "none"
    /\ cerr = <<>>
    /\ os = <<>>
    /\ oob = <<>>
    /\ pc = "collect"

SkipFile(r, i) == [pc |-> "collect", fi |-> i + 1]

\* Lines 211-213: where CollectDir goes after CollectContent ended with r.
AfterCollect(r, i) ==
    IF r = "true" THEN [pc |-> "collect", fi |-> i + 1]
    ELSE IF r = "false" THEN [pc |-> "failed", fi |-> i]
    ELSE [pc |-> "aborted", fi |-> i]

\* Lines 204-207: the file does not open; CollectDir returns false.
OpenFails ==
    /\ pc = "collect"
    /\ fi <= Len(fv)
    /\ seen' = Append(seen, fv[fi])
    /\ cerr' = Append(cerr, Msg("Couldn't open file ", fv[fi]))
    /\ pc' = "failed"
    /\ UNCHANGED <<fnMap, bMap, fv, fi, content, js, ret, os, oob>>

\* Lines 209-212: the file opens and holds the text c.
Collect ==
    /\ pc = "collect"
    /\ fi <= Len(fv)
    /\ \E c \in Contents :
          LET r == CollectContent(GetFileName(fv[fi]), fv[fi], c, fnMap, bMap, cerr)
              n == AfterCollect(r.ret, fi)
          IN  /\ content' = c
              /\ js' = r.js
              /\ ret' = r.ret
              /\ fnMap' = r.fnMap
              /\ bMap' = r.bMap
              /\ cerr' = r.cerr
              /\ pc' = n.pc
              /\ fi' = n.fi
    /\ seen' = Append(seen, fv[fi])
    /\ UNCHANGED <<fv, os, oob>>

\* Lines 343-346: CollectDir returned false.
CollectFailed ==
    /\ pc = "failed"
    /\ cerr' = Append(cerr, Msg("Couldn't collect data.", <<>>))
    /\ pc' = "exit"
    /\ UNCHANGED <<fnMap, bMap, fv, fi, seen, content, js, ret, os, oob>>

\* Lines 214, 347: CollectDir returned true; hd.Populate(os).
Render ==
    /\ pc = "collect"
    /\ fi > Len(fv)
    /\ \E after \in BOOLEAN :
          LET f == SortByValue(fnMap, after) IN
          /\ fnMap' = f
          /\ \E ub \in UBOutcomes :
              LET o == Populate(f, bMap, ub) IN
              /\ os' = o.os
              /\ oob' = o.oob
              /\ pc' = (IF o.crashed THEN "crashed" ELSE "done")
    /\ UNCHANGED <<bMap, fv, fi, seen, content, js, ret, cerr>>

Next == OpenFails \/ Collect \/ CollectFailed \/ Render

Spec == Init /\ [][Next]_vars

(***************************************************************************)
(* json::Parse on its own: one text is parsed                               *)
(***************************************************************************)
Gap == Ch("gap")
NumGaps(tpl) == Cardinality({i \in 1..Len(tpl) : tpl[i] = Gap})

RECURSIVE Fill(_, _, _, _)
\* The template from unit i on, its gaps (the k-th next) replaced by lay[k] line feeds.
Fill(tpl, lay, i, k) ==
    IF i > Len(tpl) THEN <<>>
    ELSE IF tpl[i] = Gap
    THEN [j \in 1..lay[k] |-> NL] \o Fill(tpl, lay, i + 1, k + 1)
    ELSE <<tpl[i]>> \o Fill(tpl, lay, i + 1, k)

\* { "a" : 1, "b" : { "c" : [ { "a" : null } ] } }
TemplateNested ==
    <<LB, Gap, Str("a"), Gap, CO, Gap, Num("1"), CM, Gap, Str("b"), CO, LB, Gap, Str("c"), Gap,
      CO, LS, LB, Str("a"), CO, Gap, Id("null"), RB, RS, RB, RB>>
\* { "k" : "v", "k" : { "k" : 1, "k" : 2 } }
TemplateDuplicate ==
    <<LB, Str("k"), Gap, CO, Str("v"), CM, Gap, Str("k"), CO, LB, Gap, Str("k"), CO, Num("1"),
      CM, Gap, Str("k"), Gap, CO, Num("2"), RB, Gap, RB>>

Layouts(tpl) == { Fill(tpl, lay, 1, 1) : lay \in [1..NumGaps(tpl) -> 0..MaxNL] }

ParseTexts == Contents \cup Layouts(TemplateNested) \cup Layouts(TemplateDuplicate)

InitParse ==
    /\ fnMap = SeedAliases
    /\ bMap = <<>>
    /\ fv = <<>>
    /\ fi = 1
    /\ seen = <<>>
    /\ content \in ParseTexts
    /\ js = NullValue
    /\ ret = "none"
    /\ cerr = <<>>
    /\ os = <<>>
    /\ oob = <<>>
    /\ pc = "parse"

\* const Value js = json::Parse(content);
ParseContent ==
    /\ pc = "parse"
    /\ js' = ParseText(content)
    /\ pc' = "parsed"
    /\ UNCHANGED <<fnMap, bMap, fv, fi, seen, content, ret, cerr, os, oob>>

NextParse == ParseContent

SpecParse == InitParse /\ [][NextParse]_vars

(***************************************************************************)
(* Properties                                                               *)
(***************************************************************************)
\* The next unit of the text after position i that is not white space.
RECURSIVE NextUnit(_, _)
NextUnit(text, i) ==
    IF i >= Len(text) THEN Ch("")
    ELSE IF text[i + 1] = NL \/ text[i + 1] = SP THEN NextUnit(text, i + 1)
    ELSE text[i + 1]

\* The positions of the string literals of the text that are keys, ascending.
RECURSIVE KeyPositionsFrom(_, _)
KeyPositionsFrom(text, i) ==
    IF i > Len(text) THEN <<>>
    ELSE IF text[i].t = "str" /\ NextUnit(text, i) = CO
    THEN <<i>> \o KeyPositionsFrom(text, i + 1)
    ELSE KeyPositionsFrom(text, i + 1)

\* The 1-based line of position i: one more than the line feeds before it.
LineOf(text, i) == 1 + Cardinality({j \in 1..(i - 1) : text[j] = NL})

RECURSIVE KeysOf(_)
RECURSIVE KeysOfEntries(_, _)
\* The keys of a parsed tree in document order.
KeysOf(v) == IF v.type \in {"map", "array"} THEN KeysOfEntries(v, 1) ELSE <<>>
KeysOfEntries(v, i) ==
    IF i > Len(v.vals) THEN <<>>
    ELSE (IF v.type = "map" THEN <<v.keys[i]>> ELSE <<>>)
         \o KeysOf(v.vals[i]) \o KeysOfEntries(v, i + 1)

\* C8: every key of the tree parsed from an object text carries the 1-based
\* line on which the key's opening quote stands in the text, not the line of
\* its ':' nor of its value.
C8_KeyLines ==
    (pc = "parsed" /\ IsValueMap(js)) =>
        LET ks == KeysOf(js)
            ps == KeyPositionsFrom(content, 1)
        IN  /\ Len(ks) = Len(ps)
            /\ \A i \in 1..Len(ks) :
                  /\ ks[i].key = content[ps[i]].v
                  /\ ks[i].line = LineOf(content, ps[i])

\* A nested key on a later line than its ':' of the enclosing key, and a key
\* whose ':' stands on the line after the key.
C8_Witness ==
    /\ pc = "parsed"
    /\ IsValueMap(js)
    /\ \E i \in 1..Len(content) :
          /\ content[i].t = "str"
          /\ i < Len(content)
          /\ content[i + 1] = NL
          /\ NextUnit(content, i) = CO
          /\ LineOf(content, i) > 1
    /\ \E i \in 1..Len(js.vals) : js.vals[i].type = "map" /\ Len(js.vals[i].keys) > 0

\* The entry list of file fn in the Catalog b, empty when there is none.
ListOf(b, fn) == IF Find(b, fn) >= 0 THEN b[Find(b, fn) + 1].value ELSE <<>>

Headings == SelectSeq(os, LAMBDA e : e.kind = "heading")
IsSeeded(fn) == \E k \in 1..Len(SeedAliases) : SeedAliases[k].key = fn

\* A step of CollectDir that ran CollectContent (the file opened).
CollectStep ==
    /\ seen' # seen
    /\ cerr' # Append(cerr, Msg("Couldn't open file ", fv[fi]))

\* C1: the headings of the files other than other.json are written in
\* ascending order of display name, the "..." section of other.json comes
\* after every other section, and a render that completes ends with it.
C1_SectionOrder ==
    LET h == Headings IN
    /\ \A i \in 1..Len(h) : h[i].fn = OtherJson => i = Len(h) /\ h[i].alias = OtherAlias
    /\ \A i \in 1..(Len(h) - 1) :
          h[i + 1].fn # OtherJson => StringCompare(h[i].alias, h[i + 1].alias) <= 0
    /\ pc = "done" => Len(h) > 0 /\ h[Len(h)].fn = OtherJson

\* A completed render with a collected, unseeded file, where "..." would sort
\* before the first heading.
C1_Witness ==
    LET h == Headings IN
    /\ pc = "done"
    /\ Len(h) > 3
    /\ StringCompare(OtherAlias, h[1].alias) < 0
    /\ \E i \in 1..Len(h) : h[i].fn = AJson
    /\ Find(bMap, OtherJson) >= 0

\* C2: render writes nothing for a file of the alias table, other than
\* other.json, that has no entry list in the Catalog, and reads no list for it.
C2_UncollectedSkipped ==
    /\ \A i \in 1..Len(os) :
          (os[i].kind \in {"heading", "item"} /\ os[i].fn # OtherJson) => Find(bMap, os[i].fn) >= 0
    /\ \A i \in 1..Len(oob) : oob[i] = OtherJson

\* C3: when other.json was never collected, the "..." section is the heading
\* with no list item, and render completes without reading a Catalog list
\* that does not exist.
C3_FallbackWithoutList ==
    LET h == Headings IN
    (/\ Find(bMap, OtherJson) < 0
     /\ Len(h) > 0
     /\ h[Len(h)].fn = OtherJson)
    => /\ pc = "done"
       /\ \A i \in 1..Len(os) : ~(os[i].kind = "item" /\ os[i].fn = OtherJson)
       /\ \A i \in 1..Len(oob) : oob[i] # OtherJson

HasDescription(e) ==
    e.type = "map" /\ \E k \in 1..Len(e.keys) : e.keys[k].key = "description"

RECURSIVE DescribedFrom(_, _)
\* The elements, in document order, of the top-level values of v from the
\* i-th on that are objects with a "description" key.
DescribedFrom(v, i) ==
    IF i > Len(v.vals) THEN <<>>
    ELSE SelectSeq(ToValueArray(v.vals[i]), HasDescription) \o DescribedFrom(v, i + 1)

\* C4: a collect that returns true appends to the list of the file one entry
\* for each element with a "description" key, in document order, made of that
\* key's value and line; the entries already there and the other lists stay;
\* a non-empty object is collected with true also when nothing is described.
C4_Append ==
    [][ /\ (fi' = fi + 1) =>
             LET fn  == GetFileName(fv[fi])
                 old == ListOf(bMap, fn)
                 new == ListOf(bMap', fn)
                 els == DescribedFrom(js', 1)
             IN  /\ ret' = "true"
                 /\ IsValueMap(js') /\ GetCount(js') > 0
                 /\ Find(bMap', fn) >= 0
                 /\ Len(new) = Len(old) + Len(els)
                 /\ SubSeq(new, 1, Len(old)) = old
                 /\ \A i \in 1..Len(els) :
                       \E k \in 1..Len(els[i].keys) :
                           /\ els[i].keys[k].key = "description"
                           /\ new[Len(old) + i] = Key(els[i].vals[k].s, els[i].keys[k].line)
                 /\ \A j \in 1..Len(bMap) : bMap[j].key # fn => bMap'[j] = bMap[j]
                 /\ Len(bMap') = Len(bMap) + (IF Find(bMap, fn) < 0 THEN 1 ELSE 0)
        /\ (CollectStep /\ IsValueMap(js') /\ GetCount(js') > 0 /\ ret' # "throw")
             => (ret' = "true" /\ fi' = fi + 1)
      ]_vars

\* DocLines collected into a list that already had entries.
C4_Witness ==
    /\ ret = "true"
    /\ content = DocLines
    /\ fi > 2
    /\ ListOf(bMap, AJson) = <<Key("D1", 1), Key("D1", 2), Key("D2", 5)>>

\* C4, second case: true is returned though no description was found.
C4_WitnessNone ==
    /\ ret = "true"
    /\ content = DocNoDescription
    /\ fi = 2
    /\ Find(bMap, AJson) >= 0
    /\ ListOf(bMap, AJson) = <<>>

\* C5 as stated: after a file failed, the files after it are still processed.
C5_RemainingProcessed ==
    (pc = "exit") => seen = fv

\* C5 amended: CollectDir returns at the first file that does not open or
\* collect; the files after it are not touched, "Couldn't collect data." is
\* printed and nothing is rendered.
C5_FailFast ==
    /\ (ret = "false") => pc \in {"failed", "exit"}
    /\ (pc \in {"failed", "exit"}) =>
          /\ fi <= Len(fv)
          /\ seen = SubSeq(fv, 1, fi)
          /\ os = <<>>
    /\ (pc = "exit") => cerr[Len(cerr)] = Msg("Couldn't collect data.", <<>>)
    /\ (pc \in {"done", "crashed"}) => (cerr = <<>> /\ seen = fv)

\* The first of two files failed in collect; the second was never opened.
C5_Witness ==
    /\ pc = "exit"
    /\ ret = "false"
    /\ Len(fv) = 2
    /\ seen = <<fv[1]>>

EmptyContainer(v) == v.type \in {"map", "array"} /\ Len(v.vals) = 0

\* C6: collect of a text that parses to {} or [] writes "The JSON is empty."
\* with the source label, returns false and creates no entry list; nothing
\* is rendered after it.
C6_EmptyRejected ==
    /\ [][ (CollectStep /\ EmptyContainer(js')) =>
              /\ ret' = "false"
              /\ cerr' = Append(cerr, Msg("The JSON is empty. ", fv[fi]))
              /\ bMap' = bMap
              /\ pc' = "failed"
         ]_vars
    /\ [](EmptyContainer(js) /\ ret # "none" => os = <<>>)

\* {} was collected for a path in a sub-directory; it has no list.
C6_Witness ==
    /\ pc = "exit"
    /\ ret = "false"
    /\ js = EmptyMap
    /\ fv[fi] # GetFileName(fv[fi])
    /\ Find(bMap, GetFileName(fv[fi])) < 0
    /\ cerr[Len(cerr) - 1] = Msg("The JSON is empty. ", fv[fi])

\* C7: a successful collect adds the alias (file name, file name without
\* ".json") when the file name has none, and leaves the alias table alone
\* otherwise; the file names of the table are unique, the seeded aliases stay,
\* and the section of an unseeded file is titled with its base name.
C7_Aliases ==
    /\ [][ (fi' = fi + 1) =>
              LET fn == GetFileName(fv[fi]) IN
              IF Find(fnMap, fn) < 0
              THEN /\ Len(fnMap') = Len(fnMap) + 1
                   /\ SubSeq(fnMap', 1, Len(fnMap)) = fnMap
                   /\ fnMap'[Len(fnMap')].key = fn
                   /\ fnMap'[Len(fnMap')].value \o DotJson = fn
              ELSE fnMap' = fnMap
         ]_vars
    /\ [](/\ \A i, j \in 1..Len(fnMap) : i # j => fnMap[i].key # fnMap[j].key
          /\ \A k \in 1..Len(SeedAliases) : \E i \in 1..Len(fnMap) : fnMap[i] = SeedAliases[k]
          /\ \A i \in 1..Len(fnMap) :
                ~IsSeeded(fnMap[i].key) =>
                    fnMap[i].value \o DotJson = fnMap[i].key /\ Find(bMap, fnMap[i].key) >= 0
          /\ \A i \in 1..Len(os) :
                (os[i].kind = "heading" /\ ~IsSeeded(os[i].fn)) => os[i].alias \o DotJson = os[i].fn
          /\ (pc = "done") =>
                \A j \in 1..Len(bMap) :
                    ~IsSeeded(bMap[j].key) =>
                        Cardinality({i \in 1..Len(os) :
                            os[i].kind = "heading" /\ os[i].fn = bMap[j].key}) = 1)

\* a.json collected from two directories, then rendered under "a".
C7_Witness ==
    /\ pc = "done"
    /\ Len(seen) = 2
    /\ GetFileName(seen[1]) = AJson
    /\ GetFileName(seen[2]) = AJson
    /\ Len(fnMap) = Len(SeedAliases) + 1
    /\ \E i \in 1..Len(os) : os[i] = Heading(AJson, <<"a">>)

RECURSIVE ObjectsOf(_)
RECURSIVE ObjectsOfEntries(_, _)
\* The objects of a parsed tree.
ObjectsOf(v) ==
    (IF v.type = "map" THEN <<v>> ELSE <<>>)
    \o (IF v.type \in {"map", "array"} THEN ObjectsOfEntries(v, 1) ELSE <<>>)
ObjectsOfEntries(v, i) ==
    IF i > Len(v.vals) THEN <<>> ELSE ObjectsOf(v.vals[i]) \o ObjectsOfEntries(v, i + 1)

\* C9 as stated: an object holds one entry for each key text.
C9_OneEntryPerKeyText ==
    LET objs == ObjectsOf(js) IN
    \A n \in 1..Len(objs) :
        \A i, j \in 1..Len(objs[n].keys) : i # j => objs[n].keys[i].key # objs[n].keys[j].key

\* The description entry of a device object that a lookup by text finds.
FirstDescription(e) ==
    LET k == CHOOSE k \in 1..Len(e.keys) :
                 /\ e.keys[k].key = "description"
                 /\ \A j \in 1..(k - 1) : e.keys[j].key # "description"
    IN  Key(e.vals[k].s, e.keys[k].line)

\* C9 amended: the parsed objects hold one entry for every key occurrence of
\* the text, in the order of the text; a device object yields one Catalog
\* entry, with the value and line of its first "description".
C9_EntryPerOccurrence ==
    /\ IsValueMap(js) =>
          LET ks == KeysOf(js)
              ps == KeyPositionsFrom(content, 1)
          IN  /\ Len(ks) = Len(ps)
              /\ \A i \in 1..Len(ks) : ks[i].key = content[ps[i]].v
    /\ (ret = "true") =>
          LET new == ListOf(bMap, GetFileName(fv[fi - 1]))
              els == DescribedFrom(js, 1)
              n   == Len(new) - Len(els)
          IN  /\ n >= 0
              /\ \A i \in 1..Len(els) : new[n + i] = FirstDescription(els[i])

\* The device with two descriptions was collected: one entry, the first's.
C9_Witness ==
    /\ ret = "true"
    /\ content = DocDuplicate
    /\ fi = 2
    /\ ListOf(bMap, GetFileName(fv[1])) = <<Key("D1", 1)>>
    /\ Len(ObjectsOf(js)[2].keys) = 2

\* C10: a collect that returns false leaves the Catalog and the alias table
\* as they were.
C10_FailureFrame ==
    [][ (CollectStep /\ ret' = "false") => (bMap' = bMap /\ fnMap' = fnMap) ]_vars

\* A non-empty array at the top level: false, with no message and no list.
C10_Witness ==
    /\ ret = "false"
    /\ js.type = "array"
    /\ GetCount(js) > 0
    /\ cerr = <<>>
    /\ bMap = <<>>
    /\ fnMap = SeedAliases

====
